---------------------------- MODULE Spec2Model ----------------------------
(***************************************************************************)
(* Model of the address endpoints of the Kaspa REST server                 *)
(* (src/endpoints/get_address_transactions.py) and of the catch-all        *)
(* exception handler of src/server.py.                                     *)
(*                                                                         *)
(* The store is the address -> transaction mapping table read through      *)
(* TxAddrMapping and the activity table addresses_transactions read by the *)
(* batch query of get_addresses_active.  A handler is one action per       *)
(* stretch of code between two awaits on the store; the cursor pager has   *)
(* two awaits (the page query and the boundary query) and so two actions.  *)
(* The client of the cursor pager follows the paging protocol the `limit`  *)
(* parameter documents: pass `before` = the oldest time of the previous    *)
(* result and repeat until an empty result is returned.                    *)
(***************************************************************************)
EXTENDS Integers, Sequences, FiniteSets, TLC

\* ------------------------------------------------------------------ bounds
MaxRows == 3
MaxTime == 3
MaxLimit == 2
MaxOffset == 2
MaxBatch == 2
MaxActivityRows == 2

\* Wall clock readings range a little past the newest possible block time:
\* a block time may lie ahead of the server's clock.
MaxClock == MaxTime + 1

\* ------------------------------------------------------------ value sets
Addresses == {"kaspa:qa", "kaspa:qb"}
\* The tables at the start are closed under exchanging the two addresses,
\* so requests for one of them cover the other.
RequestAddresses == {"kaspa:qa"}
TxIds == {"tx1", "tx2"}
\* block_time is epoch milliseconds of a mined block: positive.
Times == 1 .. MaxTime
RowValues == [address : Addresses, transaction_id : TxIds, block_time : Times]

Min(a, b) == IF a <= b THEN a ELSE b
Range(s) == {s[i] : i \in DOMAIN s}

RECURSIVE SetToSeq(_)
\* The elements of a finite set in one fixed order.
SetToSeq(S) ==
    IF S = {} THEN <<>>
    ELSE LET x == CHOOSE y \in S : TRUE IN <<x>> \o SetToSeq(S \ {x})

\* --------------------------------------------------------- python helpers
\* PySet gone wrong: a list is built where the code builds a set.
PySetKeepsDuplicates(seq) == seq

\* set(iterable): every element once, in the set's own iteration order.
PySet(seq) == SetToSeq(Range(seq))

\* PySetUpdate gone wrong: the update is lost.
PySetUpdateDropped(s, xs) == s

\* s.update(xs)
PySetUpdate(s, xs) == PySet(s \o xs)

Digits == <<"0", "1", "2", "3", "4", "5", "6", "7", "8", "9">>

RECURSIVE IntToStr(_)
\* str(n) for n >= 0: the decimal digits, most significant first.
IntToStr(n) ==
    IF n < 10 THEN <<Digits[n + 1]>>
    ELSE IntToStr(n \div 10) \o <<Digits[(n % 10) + 1]>>

DigitValue(c) == (CHOOSE d \in 1 .. 10 : Digits[d] = c) - 1

RECURSIVE StrToInt(_)
\* int(s) of a string of decimal digits.
StrToInt(s) ==
    IF Len(s) = 0 THEN 0
    ELSE StrToInt(SubSeq(s, 1, Len(s) - 1)) * 10 + DigitValue(s[Len(s)])

\* ------------------------------------------------------------- the store
RowList == SetToSeq(RowValues)

\* The tables the store can hold at the start: up to MaxRows rows, any of
\* them equal.  A row's position in the table carries no meaning (a query
\* returns rows of equal block_time in any order), so one table per multiset
\* of rows is enough.
InitialMappings ==
    UNION {
        { [i \in 1 .. n |-> RowList[f[i]]] :
            f \in { g \in [1 .. n -> 1 .. Len(RowList)] :
                      \A i \in 1 .. n : (i < n) => (g[i] <= g[i + 1]) } }
        : n \in 0 .. MaxRows }

\* Before gone wrong: `<=` where the code filters with `<`.
BeforeOrAt(block_time, bound) == block_time <= bound

\* .filter(TxAddrMapping.block_time < before)
Before(block_time, bound) == block_time < bound

\* OrderedDesc gone wrong: ascending order.
OrderedAsc(a, b) == a <= b

\* .order_by(TxAddrMapping.block_time.desc()): a may precede b.
OrderedDesc(a, b) == a >= b

\* The rows (positions in the table m) a query's filters keep.
RowsOfAddress(m, addr) == {i \in 1 .. Len(m) : m[i].address = addr}

RowsBefore(m, addr, bound) ==
    {i \in RowsOfAddress(m, addr) : Before(m[i].block_time, bound)}

\* Every answer the store may give to ORDER BY block_time DESC LIMIT lim
\* OFFSET off over the rows M: the rows off+1 .. off+lim of one of the
\* orderings of M by descending block_time (rows of equal block_time in any
\* order), as a sequence of row positions.
OrderedWindows(m, M, lim, off) ==
    LET n == Cardinality(M)
        orderings ==
            { s \in [1 .. n -> M] :
                /\ \A i, j \in 1 .. n : (i # j) => (s[i] # s[j])
                /\ \A i, j \in 1 .. n :
                     (i < j) => OrderedDesc(m[s[i]].block_time, m[s[j]].block_time) }
    IN  { SubSeq(s, Min(off, n) + 1, Min(off + lim, n)) : s \in orderings }

\* ------------------------------------------------- batch address parsing
PrefixSeparator == ":"

RECURSIVE Split(_, _)
\* str.split(sep) for a one-character separator: the pieces between the
\* separators, at least one piece.
Split(s, sep) ==
    IF \E i \in 1 .. Len(s) : s[i] = sep
    THEN LET i == CHOOSE k \in 1 .. Len(s) :
                    s[k] = sep /\ \A j \in 1 .. k - 1 : s[j] # sep
         IN  <<SubSeq(s, 1, i - 1)>> \o Split(SubSeq(s, i + 1, Len(s)), sep)
    ELSE <<s>>

\* address.split(":")[1] raises IndexError when there is no second piece.
RaisesIndexError(address) == Len(Split(address, PrefixSeparator)) < 2

\* address.split(":")[1]: Python's index 1 is the second piece.
PayloadOf(address) == Split(address, PrefixSeparator)[2]

\* The addresses a batch may name: two payloads, the same payload under
\* two prefixes, an address with a second separator, and one without any.
BatchAddresses ==
    { <<"k", ":", "a">>, <<"k", ":", "b">>, <<"t", ":", "a">>,
      <<"k", ":", "a", ":", "b">>, <<"k", "a">> }

ActivityKeys == { <<"a">>, <<"b">> }

Batches == UNION { [1 .. n -> BatchAddresses] : n \in 0 .. MaxBatch }

\* All orders of the elements of the sequence s.
Orderings(s) ==
    { [i \in 1 .. Len(s) |-> s[p[i]]] :
        p \in { q \in [1 .. Len(s) -> 1 .. Len(s)] :
                  \A i, j \in 1 .. Len(s) : (i # j) => (q[i] # q[j]) } }

RECURSIVE KeepIn(_, _)
\* The elements of the sequence s that are in the set keep, in order.
KeepIn(s, keep) ==
    IF s = <<>> THEN <<>>
    ELSE (IF Head(s) \in keep THEN <<Head(s)>> ELSE <<>>) \o KeepIn(Tail(s), keep)

\* ---------------------------------------------------------------- state
VARIABLES
    mapping,                \* the address -> transaction mapping table
    addresses_transactions, \* the activity table: rows per address payload
    now_ms,                 \* the last reading of the wall clock, epoch ms
    mode,                   \* what the client does: traverse | repeat | offset | active
    kaspaAddress, limit, offset, \* the request's path and query parameters
    cursor,                 \* the `before` the client passes with its next page request
    addresses,              \* the body of a batch activity request
    pc,                     \* ready | boundary (awaiting the second query) | done
    before,                 \* the handler's `before` after defaulting
    tx_ids, oldest_block_time, \* the handler's locals across the second await
    fetched,                \* the table rows the page query returned
    same_time,              \* the table rows the boundary query returned
    window,                 \* the table rows the offset query returned, in order
    queries_sent,           \* statements sent to the store by the last request
    response,               \* the last response
    page, prev,             \* the last page received and the one before it
    calls,                  \* page responses received so far (counted to 2)
    delivered,              \* identifiers received so far
    first_before,           \* the effective `before` of the first page request
    start_len               \* rows in the mapping table when the client began

vars ==
    << mapping, addresses_transactions, now_ms, mode, kaspaAddress, limit,
       offset, cursor, addresses, pc, before, tx_ids, oldest_block_time,
       fetched, same_time, window, queries_sent, response, page, prev, calls,
       delivered, first_before, start_len >>

NoHeaders == [h \in {} |-> <<>>]
NoResponse == [status |-> 0, transactionIds |-> <<>>, headers |-> NoHeaders]
NoPage == [valid |-> FALSE, full |-> FALSE, oldest |-> 0, ids |-> {}]
NoActivity == [p \in ActivityKeys |-> 0]

PagingModes == {"traverse", "repeat"}

\* The server is up, the store holds what the indexer has written so far,
\* and no request has been made.
InitRest ==
    /\ now_ms = 1
    /\ mode = "idle"
    /\ kaspaAddress = "kaspa:qa"
    /\ limit = 1
    /\ offset = 0
    /\ cursor = 0
    /\ addresses = <<>>
    /\ pc = "ready"
    /\ before = 0
    /\ tx_ids = <<>>
    /\ oldest_block_time = 0
    /\ fetched = {}
    /\ same_time = {}
    /\ window = <<>>
    /\ queries_sent = 0
    /\ response = NoResponse
    /\ page = NoPage
    /\ prev = NoPage
    /\ calls = 0
    /\ delivered = {}
    /\ first_before = 0
    /\ start_len = Len(mapping)

\* The pagers read the mapping table only.
Init ==
    /\ mapping \in InitialMappings
    /\ addresses_transactions = NoActivity
    /\ InitRest

\* The activity endpoint reads the activity table only.
InitActive ==
    /\ mapping = <<>>
    /\ addresses_transactions \in [ActivityKeys -> 0 .. MaxActivityRows]
    /\ InitRest

\* ------------------------------------------------------------ the client
\* What a request leaves as it is.
RequestFrame ==
    UNCHANGED <<mapping, addresses_transactions, now_ms, pc, before, tx_ids,
                oldest_block_time, fetched, same_time, window, queries_sent,
                response, page, prev, calls, delivered, first_before>>

\* The client starts to page through an address's transactions (traverse),
\* or sets out to send one page request twice (repeat): limit in [1, 500]
\* and before >= 0, 0 being the default.
BeginPaging ==
    /\ mode = "idle"
    /\ mode' \in PagingModes
    /\ kaspaAddress' \in RequestAddresses
    /\ limit' \in 1 .. MaxLimit
    /\ cursor' \in 0 .. MaxClock
    /\ start_len' = Len(mapping)
    /\ UNCHANGED <<offset, addresses>>
    /\ RequestFrame

\* The client asks the offset pager: limit in [1, 500], offset >= 0.
BeginOffset ==
    /\ mode = "idle"
    /\ mode' = "offset"
    /\ kaspaAddress' \in RequestAddresses
    /\ limit' \in 1 .. MaxLimit
    /\ offset' \in 0 .. MaxOffset
    /\ UNCHANGED <<cursor, addresses, start_len>>
    /\ RequestFrame

\* The client posts a batch of addresses to the activity endpoint.
BeginActive ==
    /\ mode = "idle"
    /\ mode' = "active"
    /\ addresses' \in Batches
    /\ UNCHANGED <<kaspaAddress, limit, offset, cursor, start_len>>
    /\ RequestFrame

\* ------------------------------------------------------ the cursor pager
\* before = int(time.time() * 1000) if before == 0 else before
EffectiveBefore(b, now) == IF b = 0 THEN now ELSE b

\* oldest_block_time = tx_ids_and_block_times[-1][1]
OldestBlockTime(rows) == rows[Len(rows)][2]

\* PageIsFull gone wrong: an off-by-one in the test.
PageOverfull(n, lim) == n > lim

\* if len(tx_ids_and_block_times) == limit
PageIsFull(n, lim) == n = lim

\* The rows of the boundary query: same address, block_time == oldest.
RowsAt(m, addr, t) == {i \in RowsOfAddress(m, addr) : m[i].block_time = t}

\* The response of a non-empty page.
PageResponse(ids, oldest) ==
    [ status |-> 200,
      transactionIds |-> ids,
      headers |-> ("X-Current-Page" :> IntToStr(Len(ids)))
                  @@ ("X-Oldest-Epoch-Millis" :> IntToStr(oldest)) ]

\* `return []`: a successful response with no transactions and no paging headers.
EmptyResponse == [status |-> 200, transactionIds |-> <<>>, headers |-> NoHeaders]

\* The client receives a page response.  Traversing, it stops at an empty
\* result and otherwise asks next for the page before the oldest time the
\* headers report; repeating, it sends the same request a second time.
Receive(resp, full) ==
    /\ response' = resp
    /\ prev' = page
    /\ page' = [ valid |-> TRUE,
                 full |-> full,
                 oldest |-> IF resp.transactionIds = <<>> THEN 0
                            ELSE StrToInt(resp.headers["X-Oldest-Epoch-Millis"]),
                 ids |-> Range(resp.transactionIds) ]
    /\ calls' = IF calls < 2 THEN calls + 1 ELSE calls
    /\ delivered' = delivered \cup Range(resp.transactionIds)
    /\ cursor' = IF mode = "traverse" /\ resp.transactionIds # <<>>
                 THEN StrToInt(resp.headers["X-Oldest-Epoch-Millis"])
                 ELSE cursor
    /\ pc' = IF mode = "traverse"
             THEN (IF resp.transactionIds = <<>> THEN "done" ELSE "ready")
             ELSE (IF calls >= 1 THEN "done" ELSE "ready")

\* get_full_transactions_for_address_page up to its second await: the
\* defaulting of `before`, the page query, the empty return, and, when the
\* page is not full, the response.
PageFirstQuery ==
    /\ mode \in PagingModes
    /\ pc = "ready"
    /\ \E now \in (IF cursor = 0 THEN now_ms .. MaxClock ELSE {now_ms}) :
       \E bef \in {EffectiveBefore(cursor, now)} :
       \E rows \in OrderedWindows(mapping, RowsBefore(mapping, kaspaAddress, bef), limit, 0) :
       \E tx_ids_and_block_times \in
              { [i \in 1 .. Len(rows) |->
                   <<mapping[rows[i]].transaction_id, mapping[rows[i]].block_time>>] } :
         /\ now_ms' = now
         /\ before' = bef
         /\ first_before' = IF calls = 0 THEN bef ELSE first_before
         /\ fetched' = Range(rows)
         /\ same_time' = {}
         /\ queries_sent' = 1
         /\ IF tx_ids_and_block_times = <<>>
            THEN /\ Receive(EmptyResponse, FALSE)
                 /\ UNCHANGED <<tx_ids, oldest_block_time>>
            ELSE \E ids \in { PySet([i \in 1 .. Len(rows) |-> tx_ids_and_block_times[i][1]]) } :
                 \E oldest \in { OldestBlockTime(tx_ids_and_block_times) } :
                   /\ tx_ids' = ids
                   /\ oldest_block_time' = oldest
                   /\ IF PageIsFull(Len(tx_ids_and_block_times), limit)
                      THEN /\ pc' = "boundary"
                           /\ UNCHANGED <<response, page, prev, calls, delivered, cursor>>
                      ELSE \E resp \in {PageResponse(ids, oldest)} : Receive(resp, FALSE)
    /\ UNCHANGED <<mapping, addresses_transactions, mode, kaspaAddress, limit,
                   offset, addresses, window, start_len>>

\* The rest of the handler: the boundary query, the update of tx_ids and
\* the response.  The answer's row order does not matter to a set update.
PageBoundaryQuery ==
    /\ pc = "boundary"
    /\ \E rows \in {RowsAt(mapping, kaspaAddress, oldest_block_time)} :
       \E answer \in {SetToSeq(rows)} :
       \E tx_with_same_block_time \in
              { [i \in 1 .. Len(answer) |-> mapping[answer[i]].transaction_id] } :
       \E ids \in {PySetUpdate(tx_ids, tx_with_same_block_time)} :
       \E resp \in {PageResponse(ids, oldest_block_time)} :
         /\ same_time' = rows
         /\ tx_ids' = ids
         /\ queries_sent' = 2
         /\ Receive(resp, TRUE)
    /\ UNCHANGED <<mapping, addresses_transactions, now_ms, mode, kaspaAddress,
                   limit, offset, addresses, before, oldest_block_time, fetched,
                   window, first_before, start_len>>

\* ------------------------------------------------------ the offset pager
\* OffsetWindows gone wrong: the offset is applied one row too late.
OffsetWindowsShifted(m, addr, lim, off) ==
    OrderedWindows(m, RowsOfAddress(m, addr), lim, off + 1)

\* select(...).filter(address == kaspaAddress).limit(limit).offset(offset)
\*            .order_by(block_time.desc())
OffsetWindows(m, addr, lim, off) ==
    OrderedWindows(m, RowsOfAddress(m, addr), lim, off)

\* get_full_transactions_for_address: one query, then the identifiers of
\* its rows, in order and as often as they occur, go to
\* search_for_transactions.
GetFullTransactionsForAddress ==
    /\ mode = "offset"
    /\ pc = "ready"
    /\ \E rows \in OffsetWindows(mapping, kaspaAddress, limit, offset) :
         LET tx_ids_in_page == [i \in 1 .. Len(rows) |-> mapping[rows[i]].transaction_id]
         IN  /\ window' = rows
             /\ response' = [ status |-> 200,
                              transactionIds |-> tx_ids_in_page,
                              headers |-> NoHeaders ]
    /\ queries_sent' = 1
    /\ pc' = "done"
    /\ UNCHANGED <<mapping, addresses_transactions, now_ms, mode, kaspaAddress,
                   limit, offset, cursor, addresses, before, tx_ids,
                   oldest_block_time, fetched, same_time, page, prev, calls,
                   delivered, first_before, start_len>>

\* ------------------------------------------------- the activity endpoint
\* unicorn_exception_handler: every exception a handler lets escape.
InternalServerError ==
    [status |-> 500, content |-> [message |-> "Internal server error"]]

\* The rows of the activity table with this address.
ActivityRows(table, payload) ==
    IF payload \in DOMAIN table THEN table[payload] ELSE 0

\* The VALUES list of the statement: one "(:a<i>)" per address, joined by ",".
ValuesList(n) == [i \in 1 .. n |-> <<"(", ":", "a">> \o IntToStr(i - 1) \o <<")">>]

\* The store parses the statement before it runs it; VALUES needs one row.
StatementParses(values) == Len(values) >= 1

\* The anti-join: VALUES rows LEFT JOIN the table WHERE t.address IS NULL.
\* A VALUES row with no table row of its address comes back once; one with
\* table rows comes back once per table row, none of them with a NULL
\* t.address.  The answer holds the kept rows in any order.
AntiJoinAnswers(table, params) ==
    Orderings(KeepIn(params, {p \in Range(params) : ActivityRows(table, p) = 0}))

\* active=(address.split(":")[1] not in non_active_addresses)
IsActive(address, non_active_addresses) ==
    PayloadOf(address) \notin Range(non_active_addresses)

\* get_addresses_active.  The parameters are bound before the statement is
\* executed, so an address without a second piece raises IndexError with no
\* statement sent; an exception leaves through unicorn_exception_handler.
GetAddressesActive ==
    /\ mode = "active"
    /\ pc = "ready"
    /\ IF \E i \in 1 .. Len(addresses) : RaisesIndexError(addresses[i])
       THEN /\ queries_sent' = 0
            /\ response' = InternalServerError
       ELSE LET params == [i \in 1 .. Len(addresses) |-> PayloadOf(addresses[i])]
            IN  /\ queries_sent' = 1
                /\ IF ~StatementParses(ValuesList(Len(addresses)))
                   THEN response' = InternalServerError
                   ELSE \E non_active_addresses \in
                              AntiJoinAnswers(addresses_transactions, params) :
                          response' =
                            [ status |-> 200,
                              body |-> [i \in 1 .. Len(addresses) |->
                                          [ address |-> addresses[i],
                                            active |-> IsActive(addresses[i],
                                                          non_active_addresses) ]] ]
    /\ pc' = "done"
    /\ UNCHANGED <<mapping, addresses_transactions, now_ms, mode, kaspaAddress,
                   limit, offset, cursor, addresses, before, tx_ids,
                   oldest_block_time, fetched, same_time, window, page, prev,
                   calls, delivered, first_before, start_len>>

\* ------------------------------------------------------------ the indexer
\* The external indexer appends a row to the mapping table while a traversal
\* is under way; rows are never changed or deleted.  Rows of other addresses
\* pass no query of the traversal, so the rows inserted are rows of the
\* traversed address (rows of other addresses are in the table from the
\* start).
InsertRow ==
    /\ mode = "traverse"
    /\ pc # "done"
    /\ Len(mapping) < MaxRows
    /\ \E r \in {v \in RowValues : v.address = kaspaAddress} :
         mapping' = Append(mapping, r)
    /\ UNCHANGED <<addresses_transactions, now_ms, mode, kaspaAddress, limit,
                   offset, cursor, addresses, pc, before, tx_ids,
                   oldest_block_time, fetched, same_time, window, queries_sent,
                   response, page, prev, calls, delivered, first_before,
                   start_len>>

\* -------------------------------------------------------- specifications
Next ==
    \/ BeginPaging
    \/ BeginOffset
    \/ PageFirstQuery
    \/ PageBoundaryQuery
    \/ GetFullTransactionsForAddress

\* The two pagers on a store nothing writes to.
Spec == Init /\ [][Next]_vars

NextActive == BeginActive \/ GetAddressesActive

\* The activity endpoint.
SpecActive == InitActive /\ [][NextActive]_vars

\* The client starts a traversal.
BeginTraversal == BeginPaging /\ mode' = "traverse"

NextPage == BeginTraversal \/ PageFirstQuery \/ PageBoundaryQuery

\* A traversal on a store nothing writes to.  The client keeps asking until
\* the empty result and the server answers every request it gets.
FairSpec ==
    Init /\ [][NextPage]_vars
    /\ WF_vars(BeginTraversal) /\ WF_vars(PageFirstQuery) /\ WF_vars(PageBoundaryQuery)

NextIns == BeginTraversal \/ PageFirstQuery \/ PageBoundaryQuery \/ InsertRow

\* The table holds rows of the address to be traversed; rows of other
\* addresses pass none of the traversal's queries (Spec has them).
InitIns ==
    /\ mapping \in {m \in InitialMappings :
                       \A i \in 1 .. Len(m) : m[i].address \in RequestAddresses}
    /\ addresses_transactions = NoActivity
    /\ InitRest

\* A traversal with the indexer inserting rows at any point.
SpecIns == InitIns /\ [][NextIns]_vars

\* ---------------------------------------------------------------- claims
\* The identifiers of the table rows at the positions `rows`.
IdsOf(rows) == {mapping[i].transaction_id : i \in rows}

\* The client holds the response to a page request that returned rows.
PageReceived ==
    /\ mode \in PagingModes
    /\ pc \in {"ready", "done"}
    /\ page.valid
    /\ response.transactionIds # <<>>

\* C1: on a store nothing writes to, when the traversal has ended with the
\* empty result, every row of the address with block_time below the first
\* request's (effective) `before` has had its identifier delivered.
C1_GapFreePaging ==
    (mode = "traverse" /\ pc = "done")
        => IdsOf({i \in RowsOfAddress(mapping, kaspaAddress) :
                    mapping[i].block_time < first_before}) \subseteq delivered

\* A finished traversal with limit 1 over two rows of the address that
\* share a block_time and differ in identifier: a page boundary fell inside
\* the pair.
C1_Witness ==
    /\ mode = "traverse" /\ pc = "done" /\ limit = 1
    /\ \E i, j \in RowsOfAddress(mapping, kaspaAddress) :
         /\ mapping[i].block_time = mapping[j].block_time
         /\ mapping[i].block_time < first_before
         /\ mapping[i].transaction_id # mapping[j].transaction_id
         /\ {mapping[i].transaction_id, mapping[j].transaction_id} \subseteq delivered

\* C2: a page whose query returned exactly `limit` rows holds the identifier
\* of every row of the address at the reported oldest time; a page whose
\* query returned fewer rows was computed with one query and holds exactly
\* the identifiers of the rows fetched.
C2_BoundaryClusterIncluded ==
    PageReceived =>
        /\ (Cardinality(fetched) = limit) =>
              IdsOf(RowsAt(mapping, kaspaAddress,
                           StrToInt(response.headers["X-Oldest-Epoch-Millis"])))
                  \subseteq Range(response.transactionIds)
        /\ (Cardinality(fetched) < limit) =>
              /\ queries_sent = 1
              /\ same_time = {}
              /\ Range(response.transactionIds) = IdsOf(fetched)

\* A full page that holds more identifiers than `limit`.
C2_Witness ==
    /\ PageReceived
    /\ Cardinality(fetched) = limit
    /\ Len(response.transactionIds) > limit

\* C3: a page names no identifier twice, and X-Current-Page is the number
\* of distinct identifiers handed on.
C3_Deduplicated ==
    PageReceived =>
        /\ \A i, j \in 1 .. Len(response.transactionIds) :
              (i # j) => (response.transactionIds[i] # response.transactionIds[j])
        /\ StrToInt(response.headers["X-Current-Page"])
              = Cardinality(Range(response.transactionIds))

\* A full page whose two queries returned more rows than the page has
\* identifiers: one identifier came back twice from the page query and
\* again from the boundary query.
C3_Witness ==
    /\ PageReceived
    /\ \E i, j \in fetched :
         i # j /\ mapping[i].transaction_id = mapping[j].transaction_id
    /\ \E i \in fetched, j \in same_time :
         mapping[i].transaction_id = mapping[j].transaction_id
    /\ Cardinality(fetched) + Cardinality(same_time)
          > StrToInt(response.headers["X-Current-Page"])

\* The client holds the page that followed a full page: it was requested
\* with `before` = the oldest time of the full page.
NextPageAfterFull ==
    /\ mode = "traverse"
    /\ pc \in {"ready", "done"}
    /\ prev.valid /\ prev.full

\* C4 as stated: the page after a full page names again the transactions
\* at the full page's oldest time.
C4_BoundaryRedelivered ==
    NextPageAfterFull =>
        IdsOf(RowsAt(mapping, kaspaAddress, prev.oldest)) \subseteq page.ids

\* C4 as amended: the page after a full page is computed from rows strictly
\* older than the full page's oldest time only; no row at that time is
\* fetched again, and every identifier of the page belongs to an older row.
C4_BoundaryNotRefetched ==
    NextPageAfterFull =>
        /\ \A i \in fetched \cup same_time : mapping[i].block_time < prev.oldest
        /\ page.ids = IdsOf(fetched \cup same_time)

\* A non-empty page after a full page that lacks an identifier of the full
\* page's oldest time.
C4_Witness ==
    /\ NextPageAfterFull
    /\ page.ids # {}
    /\ ~(IdsOf(RowsAt(mapping, kaspaAddress, prev.oldest)) \subseteq page.ids)

\* C5: on a store nothing writes to, a traversal ends: the client receives
\* a successful empty result; and a request no row lies before is answered
\* with exactly that.
C5_TraversalTerminates ==
    /\ <>(pc = "done" /\ response.status = 200 /\ response.transactionIds = <<>>)
    /\ [](( /\ pc \in {"ready", "done"} /\ page.valid
            /\ \A i \in RowsOfAddress(mapping, kaspaAddress) :
                 ~(mapping[i].block_time < before) )
          => (response.status = 200 /\ response.transactionIds = <<>>))

\* A traversal that ended with the empty result after a page that held
\* transactions.
C5_Witness ==
    /\ mode = "traverse" /\ pc = "done"
    /\ prev.valid /\ prev.ids # {}
    /\ response.status = 200 /\ response.transactionIds = <<>>

\* An address with a prefix separator.
HasSeparator(address) == \E k \in 1 .. Len(address) : address[k] = ":"

\* The i-th entry of a batch answer is right: the address as given, and
\* active exactly when the activity table has a row for its payload.
EntryIsRight(i) ==
    /\ response.body[i].address = addresses[i]
    /\ response.body[i].active
         = (ActivityRows(addresses_transactions,
                         Split(addresses[i], ":")[2]) >= 1)

\* C6 as stated: every batch of well-formed addresses is answered with one
\* right entry per address, in the order given.
C6_ActivityBatchResult ==
    ( /\ mode = "active" /\ pc = "done"
      /\ \A i \in 1 .. Len(addresses) : HasSeparator(addresses[i]) )
        => /\ response.status = 200
           /\ Len(response.body) = Len(addresses)
           /\ \A i \in 1 .. Len(addresses) : EntryIsRight(i)

\* C6 for a batch that names at least one address: the answer is right.
C6_NonEmptyBatchResult ==
    ( /\ mode = "active" /\ pc = "done" /\ Len(addresses) >= 1
      /\ \A i \in 1 .. Len(addresses) : HasSeparator(addresses[i]) )
        => /\ response.status = 200
           /\ Len(response.body) = Len(addresses)
           /\ \A i \in 1 .. Len(addresses) : EntryIsRight(i)

\* C7 as stated: a batch with an address that has no separator is refused
\* with a client error before any statement is sent.
C7_MalformedIsClientError ==
    ( /\ mode = "active" /\ pc = "done"
      /\ \E i \in 1 .. Len(addresses) : ~HasSeparator(addresses[i]) )
        => /\ response.status \in 400 .. 499
           /\ queries_sent = 0

\* C8 as stated: the second of two equal page requests returns the same
\* identifiers and the same oldest time as the first.
C8_RepeatIsIdempotent ==
    (mode = "repeat" /\ pc = "done")
        => (page.ids = prev.ids /\ page.oldest = prev.oldest)

\* C8 as amended: it does when the request states `before` (before >= 1);
\* `before` = 0 stands for the time of the call.
C8_RepeatWithExplicitBefore ==
    (mode = "repeat" /\ pc = "done" /\ cursor # 0)
        => (page.ids = prev.ids /\ page.oldest = prev.oldest)

\* Two equal requests with a stated `before`, each answered with a full page
\* of limit 1 whose oldest time two rows of different identifiers share.
C8_Witness ==
    /\ mode = "repeat" /\ pc = "done" /\ cursor # 0
    /\ limit = 1 /\ page.full /\ prev.full
    /\ Cardinality(IdsOf(RowsAt(mapping, kaspaAddress, page.oldest))) >= 2

\* C9: the offset pager hands on the identifiers of the rows offset+1 ..
\* offset+limit of the address's rows by descending block_time: at most
\* `limit` of them, none when the offset is at or past the last row, and the
\* k-th of them from a row with at most offset+k-1 rows newer than it and at
\* least offset+k rows as new.
C9_OffsetWindow ==
    (mode = "offset" /\ pc = "done") =>
        LET R == RowsOfAddress(mapping, kaspaAddress)
            n == Cardinality(R)
            ids == response.transactionIds
        IN  /\ response.status = 200
            /\ Len(ids) <= limit
            /\ Len(ids) = (IF offset >= n THEN 0 ELSE Min(limit, n - offset))
            /\ Len(window) = Len(ids)
            /\ \A k \in 1 .. Len(ids) :
                 /\ window[k] \in R
                 /\ ids[k] = mapping[window[k]].transaction_id
                 /\ Cardinality({j \in R : mapping[j].block_time
                                     > mapping[window[k]].block_time}) <= offset + k - 1
                 /\ Cardinality({j \in R : mapping[j].block_time
                                     >= mapping[window[k]].block_time}) >= offset + k
            /\ \A k, l \in 1 .. Len(ids) : (k # l) => (window[k] # window[l])

\* limit 1 and offset 0 over three rows of three different times: only the
\* newest row's transaction is handed on.
C9_Witness ==
    /\ mode = "offset" /\ pc = "done" /\ limit = 1 /\ offset = 0
    /\ LET R == RowsOfAddress(mapping, kaspaAddress)
       IN  /\ Cardinality({mapping[i].block_time : i \in R}) = 3
           /\ \E i \in R :
                /\ \A j \in R \ {i} : mapping[i].block_time > mapping[j].block_time
                /\ response.transactionIds = <<mapping[i].transaction_id>>

\* C10: with the indexer inserting rows at any point, when the traversal
\* has ended, every row of the address that was in the table when the
\* traversal began and lies before the first request's (effective) `before`
\* has had its identifier delivered.
C10_GapFreeUnderInserts ==
    (mode = "traverse" /\ pc = "done")
        => IdsOf({i \in RowsOfAddress(mapping, kaspaAddress) :
                    i <= start_len /\ mapping[i].block_time < first_before})
              \subseteq delivered

\* A finished traversal of several pages during which the indexer inserted
\* a row of the address that a query of the traversal then returned.
C10_Witness ==
    /\ mode = "traverse" /\ pc = "done"
    /\ prev.valid /\ prev.full /\ start_len >= 2
    /\ \E i \in RowsOfAddress(mapping, kaspaAddress) :
         i > start_len /\ mapping[i].transaction_id \in delivered
==========================================================================
